---------------------------- MODULE Spec2Model ----------------------------
(*************************************************************************)
(* Model of app.py: the Flask routes /warmup, /predict and /live, the    *)
(* ClientApp object each of them constructs, and the files they share:   *)
(* the weights file, data/inputImage.jpg and the experiment directories  *)
(* of yolov5/runs/detect.  Every request is served by its own thread     *)
(* (app.run serves threaded), so the steps of different requests         *)
(* interleave wherever they touch the file system or start or end a      *)
(* process.                                                              *)
(*************************************************************************)
EXTENDS Integers, Sequences, FiniteSets, TLC

\* ------------------------------------------------------------- bounds --
NumRequests == 2          \* requests the server receives in one run
MaxClock == 1             \* file-system timestamps 0..MaxClock

Requests == 1..NumRequests
ExitCodes == {0, 1}       \* exit codes of the detection process

\* --------------------------------------------------------- file data --
\* A value stored in a file or sent on the wire: which picture it shows
\* (0: none, -1: frames of the capture device, r > 0: the picture that
\* request r submits, so that different requests submit different
\* pictures), whether the detector has annotated it, and whether it is raw
\* bytes or base64 text.
NoFile == [enc |-> "absent", ann |-> FALSE, img |-> 0]
Raw(x) == [enc |-> "raw", ann |-> FALSE, img |-> x]
BadText == [enc |-> "malformed", ann |-> FALSE, img |-> 0]
EmptyText == [enc |-> "empty", ann |-> FALSE, img |-> 0]

\* base64 text of a file's bytes
B64(f) == [f EXCEPT !.enc = "b64"]

\* signLanguage.utils.main_utils.decodeImage: the bytes that base64 text t
\* stands for; NoFile when t is not base64 and the call raises
decodeImage(t) == IF t.enc = "b64" THEN [t EXCEPT !.enc = "raw"] ELSE NoFile

\* signLanguage.utils.main_utils.encodeImageIntoBase64: base64 text of the
\* bytes of the file at the path
encodeImageIntoBase64(f) == B64(f)

\* what the detection run draws from the bytes it read: the same picture,
\* annotated
Annotated(f) == [f EXCEPT !.ann = TRUE]

\* ----------------------------------------------------- request bodies --
\* form: how far the body gets through lines 120-125
GoodBody(r) == [form |-> "image", image |-> B64(Raw(r))]
BadBodies ==
  { [form |-> "nonjson", image |-> NoFile],      \* request.is_json false
    [form |-> "unparsable", image |-> NoFile],   \* request.json raises
    [form |-> "missing", image |-> NoFile],      \* no 'image' key
    [form |-> "empty", image |-> EmptyText] }    \* 'image' is ""
MalformedBody == [form |-> "image", image |-> BadText]
NoBody == [form |-> "none", image |-> NoFile]
Bodies(r) == {GoodBody(r), MalformedBody} \cup BadBodies

\* ---------------------------------------------------------- responses --
NoResp == [status |-> 0, tag |-> "none", image |-> NoFile, text |-> ""]
JsonError(code, msg) ==
  [status |-> code, tag |-> "error", image |-> NoFile, text |-> msg]
JsonImage(t) == [status |-> 200, tag |-> "image", image |-> t, text |-> ""]
JsonStatus(msg) ==
  [status |-> 200, tag |-> "status", image |-> NoFile, text |-> msg]
PlainText(msg) ==
  [status |-> 200, tag |-> "ack", image |-> NoFile, text |-> msg]
\* an exception that leaves the view function: Flask answers 500 itself
Unhandled(msg) ==
  [status |-> 500, tag |-> "unhandled", image |-> NoFile, text |-> msg]

\* st: none, running, hung (running, and never going to terminate by
\* itself), exited; dir: the directory the run made (0: none yet); code: its
\* exit code; runs: how many times os.system was called for the request
NoDet == [st |-> "none", dir |-> 0, code |-> 0, runs |-> 0]

VARIABLES
  weightsExists,    \* yolov5/my_model.pt is on disk
  weightsLoadable,  \* torch.load of it succeeds
  loads,            \* executions of torch.load so far
  inputFile,        \* content of data/inputImage.jpg
  dirs,             \* yolov5/runs/detect: i-th entry is directory exp<i>
  clock,            \* file-system time of the latest write
  pc,               \* position of each request's handler
  kind,             \* route of each request
  body,             \* body of each request
  model,            \* clApp.model of each request: 0 unset, -1 None, n > 0
                    \* the object made by the n-th torch.load
  det,              \* detection process launched by each request
  exp_folders,      \* local of predictRoute: names listed at line 133
  latest,           \* local of predictRoute: latest_exp_folder, line 140
  resp,             \* response sent
  req_path,         \* path of a /output_images/<path> request
  sent,             \* answer of send_output_image to it
  base_dir,         \* os.path.dirname(__file__), a string
  source,           \* image_path argument of a run_yolo_detection call
  argv              \* argument list the process started by that call got

vars == <<weightsExists, weightsLoadable, loads, inputFile, dirs, clock, pc,
          kind, body, model, det, exp_folders, latest, resp, req_path, sent,
          base_dir, source, argv>>

env == <<weightsExists, weightsLoadable>>

\* what /warmup, /predict and /live leave alone: the state of the
\* /output_images route and of the command line, studied on their own below
aux == <<req_path, sent, base_dir, source, argv>>

InFlight(r) == pc[r] \notin {"idle", "done"}

\* The server after start-up, before any request.
InitServer ==
  /\ weightsExists \in BOOLEAN
  /\ weightsLoadable \in BOOLEAN
  /\ weightsExists = FALSE => weightsLoadable = FALSE
  /\ loads = 0
  /\ inputFile = NoFile
  /\ dirs = <<>>
  /\ clock = 0
  /\ pc = [r \in Requests |-> "idle"]
  /\ kind = [r \in Requests |-> "none"]
  /\ body = [r \in Requests |-> NoBody]
  /\ model = [r \in Requests |-> 0]
  /\ det = [r \in Requests |-> NoDet]
  /\ exp_folders = [r \in Requests |-> {}]
  /\ latest = [r \in Requests |-> 0]
  /\ resp = [r \in Requests |-> NoResp]

\* No /output_images request and no command line under study.
InitAux ==
  /\ req_path = [abs |-> FALSE, segs |-> <<>>]
  /\ sent = [status |-> 0, abs |-> FALSE, at |-> <<>>]
  /\ base_dir = <<"a">>
  /\ source = <<>>
  /\ argv = <<>>

Init == InitServer /\ InitAux

\* Requests are numbered in the order they arrive.
Arrives(r) ==
  /\ pc[r] = "idle"
  /\ \A q \in Requests : q < r => pc[q] # "idle"

\* ------------------------------------------------------------ ClientApp --
\* ClientApp._load_model with n loads done before: the exception raised,
\* the value returned and the loads done after.
load_model(exists, loadable, n) ==
  IF ~exists
    THEN [exc |-> "FileNotFoundError", model |-> 0, loads |-> n]
    ELSE IF loadable
      THEN [exc |-> "", model |-> n + 1, loads |-> n + 1]
      ELSE [exc |-> "", model |-> -1, loads |-> n + 1]

\* ------------------------------------------------------------- /warmup --
\* clApp = ClientApp(), outside any try; return {"status": "Model loaded"}
warmup(r) ==
  /\ Arrives(r)
  /\ kind' = [kind EXCEPT ![r] = "warmup"]
  /\ LET m == load_model(weightsExists, weightsLoadable, loads) IN
       /\ loads' = m.loads
       /\ model' = [model EXCEPT ![r] = m.model]
       /\ resp' = [resp EXCEPT ![r] =
                     IF m.exc # "" THEN Unhandled(m.exc)
                                   ELSE JsonStatus("Model loaded")]
  /\ pc' = [pc EXCEPT ![r] = "done"]
  /\ UNCHANGED aux
  /\ UNCHANGED <<env, inputFile, dirs, clock, body, det, exp_folders, latest>>

\* ----------------------------------------------------------- /predict --
\* Lines 120-125 on body b: the response returned there, or NoResp when
\* the handler goes on to decode.  request.json raises BadRequest on a body
\* it cannot parse, which the except of line 154 turns into a 500.
ValidationResult(b) ==
  CASE b.form = "nonjson" -> JsonError(400, "Request must be JSON")
    [] b.form = "unparsable" -> JsonError(500, "BadRequest")
    [] b.form = "missing" -> JsonError(400, "No image provided")
    [] b.form = "empty" -> JsonError(400, "No image provided")
    [] OTHER -> NoResp

\* predictRoute as it would be if it cleared the input image file before
\* looking at the body.
predictRoute_clearing(r) ==
  /\ Arrives(r)
  /\ kind' = [kind EXCEPT ![r] = "predict"]
  /\ \E b \in Bodies(r) :
       LET m == load_model(weightsExists, weightsLoadable, loads)
           v == ValidationResult(b)
       IN
         /\ body' = [body EXCEPT ![r] = b]
         /\ loads' = m.loads
         /\ model' = [model EXCEPT ![r] = m.model]
         /\ IF m.exc # ""
              THEN /\ resp' = [resp EXCEPT ![r] = Unhandled(m.exc)]
                   /\ pc' = [pc EXCEPT ![r] = "done"]
                   /\ UNCHANGED inputFile
              ELSE /\ inputFile' = NoFile
                   /\ IF v # NoResp
                        THEN /\ resp' = [resp EXCEPT ![r] = v]
                             /\ pc' = [pc EXCEPT ![r] = "done"]
                        ELSE /\ resp' = resp
                             /\ pc' = [pc EXCEPT ![r] = "decode"]
  /\ UNCHANGED aux
  /\ UNCHANGED <<env, dirs, clock, det, exp_folders, latest>>

\* Lines 118-125: clApp = ClientApp() before the try, then the checks of
\* the body inside it.  The constructor's _ensure_directories (lines 61-64)
\* makes the output root and the data directory when they are missing, and
\* nothing inside them: the input image file and the experiment
\* directories stay as they are.
predictRoute(r) ==
  /\ Arrives(r)
  /\ kind' = [kind EXCEPT ![r] = "predict"]
  /\ \E b \in Bodies(r) :
       LET m == load_model(weightsExists, weightsLoadable, loads)
           v == ValidationResult(b)
       IN
         /\ body' = [body EXCEPT ![r] = b]
         /\ loads' = m.loads
         /\ model' = [model EXCEPT ![r] = m.model]
         /\ IF m.exc # ""
              THEN /\ resp' = [resp EXCEPT ![r] = Unhandled(m.exc)]
                   /\ pc' = [pc EXCEPT ![r] = "done"]
              ELSE IF v # NoResp
                THEN /\ resp' = [resp EXCEPT ![r] = v]
                     /\ pc' = [pc EXCEPT ![r] = "done"]
                ELSE /\ resp' = resp
                     /\ pc' = [pc EXCEPT ![r] = "decode"]
  /\ UNCHANGED aux
  /\ UNCHANGED <<env, inputFile, dirs, clock, det, exp_folders, latest>>

\* Line 40: the name of the input image file, the same for every request.
filename(r) == "inputImage.jpg"

\* Line 128: the --source path of the request, below the application
\* directory.
image_path(r) == <<"data", filename(r)>>

\* Lines 81-82: the --name argument of the request's run.
run_name(r) == "exp"

\* Line 127, decodeImage(image, clApp.filename): every request writes the
\* same file; text that is not base64 raises, and line 154 answers 500.
Decode(r) ==
  /\ pc[r] = "decode"
  /\ LET bytes == decodeImage(body[r].image) IN
       IF bytes = NoFile
         THEN /\ resp' = [resp EXCEPT ![r] = JsonError(500, "EncodingError")]
              /\ pc' = [pc EXCEPT ![r] = "done"]
              /\ UNCHANGED inputFile
         ELSE /\ inputFile' = bytes
              /\ pc' = [pc EXCEPT ![r] = "spawn"]
              /\ UNCHANGED resp
  /\ UNCHANGED aux
  /\ UNCHANGED <<env, loads, dirs, clock, kind, body, model, det, exp_folders,
                 latest>>

\* -------------------------------------------------- run_yolo_detection --
\* os.system(yolo_cmd_str) starts the detection process and blocks.
Spawn(r) ==
  /\ pc[r] = "spawn"
  /\ det' = [det EXCEPT ![r] = [st |-> "running", dir |-> 0, code |-> 0,
                                runs |-> @.runs + 1]]
  /\ pc' = [pc EXCEPT ![r] = "wait"]
  /\ UNCHANGED aux
  /\ UNCHANGED <<env, loads, inputFile, dirs, clock, kind, body, model,
                 exp_folders, latest, resp>>

\* The time a write is stamped with: that of the previous write, or a later
\* one when time has passed since.
Now == {t \in {clock, clock + 1} : t <= MaxClock}

\* detect.py --project output_dir --name exp: the run makes the next free
\* directory exp, exp2, exp3, ...
DetMkdir(r) ==
  /\ det[r].st = "running"
  /\ det[r].dir = 0
  /\ \E t \in Now :
       /\ clock' = t
       /\ dirs' = Append(dirs, [mtime |-> t, artifact |-> NoFile, owner |-> r])
  /\ det' = [det EXCEPT ![r].dir = Len(dirs) + 1]
  /\ UNCHANGED aux
  /\ UNCHANGED <<env, loads, inputFile, pc, kind, body, model, exp_folders,
                 latest, resp>>

\* The run of a /predict request reads the file at its --source path and
\* saves the annotated picture under the fixed name in its directory.  (The
\* run of /live reads the capture device and saves no picture of that name.)
DetSave(r) ==
  /\ det[r].st = "running"
  /\ det[r].dir # 0
  /\ kind[r] = "predict"
  /\ dirs[det[r].dir].artifact = NoFile
  /\ \E t \in Now :
       /\ clock' = t
       /\ dirs' = [dirs EXCEPT ![det[r].dir] =
                     [@ EXCEPT !.mtime = t, !.artifact = Annotated(inputFile)]]
  /\ UNCHANGED aux
  /\ UNCHANGED <<env, loads, inputFile, pc, kind, body, model, det,
                 exp_folders, latest, resp>>

\* The process stops making progress without terminating (a capture stream
\* that never ends, a blocked device, a deadlock): nothing in app.py ends it,
\* and os.system keeps blocking.
DetHang(r) ==
  /\ det[r].st = "running"
  /\ det' = [det EXCEPT ![r].st = "hung"]
  /\ UNCHANGED aux
  /\ UNCHANGED <<env, loads, inputFile, dirs, clock, pc, kind, body, model,
                 exp_folders, latest, resp>>

\* os.system's return value for a process that exited with code c
os_system(c) == c * 256

\* Lines 91-92 without the enclosing try: the RuntimeError of a non-zero
\* status leaves the function.
PropagatesFailure(exit_code) == exit_code # 0

\* Lines 89-94: whether an exception leaves run_yolo_detection when
\* os.system returned exit_code.  The RuntimeError raised at line 92 is
\* raised inside the try whose except (line 93) catches and prints it.
Propagates(exit_code) == FALSE

\* run_yolo_detection as it would be with a launch that does not wait for
\* the process (subprocess.Popen without wait): the caller goes on while the
\* process runs.
run_yolo_detection_async(r) ==
  /\ pc[r] = "wait"
  /\ det[r].st = "running"
  /\ pc' = [pc EXCEPT ![r] = IF kind[r] = "live" THEN "ack" ELSE "listdir"]
  /\ UNCHANGED aux
  /\ UNCHANGED <<env, loads, inputFile, dirs, clock, kind, body, model, det,
                 exp_folders, latest, resp>>

\* run_yolo_detection as it would be with a retry: a non-zero exit code
\* makes it call os.system again.
run_yolo_detection_retry(r) ==
  /\ pc[r] = "wait"
  /\ det[r].st = "running"
  /\ \E c \in ExitCodes :
       IF os_system(c) # 0
         THEN /\ det' = [det EXCEPT ![r] = [st |-> "running", dir |-> 0,
                                            code |-> 0, runs |-> @.runs + 1]]
              /\ UNCHANGED <<pc, resp>>
         ELSE /\ det' = [det EXCEPT ![r].st = "exited", ![r].code = c]
              /\ resp' = resp
              /\ pc' = [pc EXCEPT ![r] =
                          IF kind[r] = "live" THEN "ack" ELSE "listdir"]
  /\ UNCHANGED aux
  /\ UNCHANGED <<env, loads, inputFile, dirs, clock, kind, body, model,
                 exp_folders, latest>>

\* Lines 90-94, from the moment the process terminates (at any point of its
\* run, with any exit code) to the return to the caller; an exception that
\* left the function would be answered by the caller's except (lines 154-156
\* and 168-170).
run_yolo_detection(r) ==
  /\ pc[r] = "wait"
  /\ det[r].st = "running"
  /\ \E c \in ExitCodes :
       /\ det' = [det EXCEPT ![r].st = "exited", ![r].code = c]
       /\ IF Propagates(os_system(c))
            THEN /\ resp' = [resp EXCEPT ![r] =
                               JsonError(500, "YOLO detection failed")]
                 /\ pc' = [pc EXCEPT ![r] = "done"]
            ELSE /\ resp' = resp
                 /\ pc' = [pc EXCEPT ![r] =
                             IF kind[r] = "live" THEN "ack" ELSE "listdir"]
  /\ UNCHANGED aux
  /\ UNCHANGED <<env, loads, inputFile, dirs, clock, kind, body, model,
                 exp_folders, latest>>

\* ------------------------------------------------- artifact resolution --
\* Lines 133-137: the names in the output root that start with "exp".
ListDir(r) ==
  /\ pc[r] = "listdir"
  /\ IF dirs = <<>>
       THEN /\ resp' = [resp EXCEPT ![r] =
                          JsonError(500, "No experiment folders found")]
            /\ pc' = [pc EXCEPT ![r] = "done"]
            /\ UNCHANGED exp_folders
       ELSE /\ exp_folders' = [exp_folders EXCEPT ![r] = DOMAIN dirs]
            /\ pc' = [pc EXCEPT ![r] = "pick"]
            /\ UNCHANGED resp
  /\ UNCHANGED aux
  /\ UNCHANGED <<env, loads, inputFile, dirs, clock, kind, body, model, det,
                 latest>>

\* The name the detector gives the n-th run called "exp": "exp", "exp2",
\* "exp3", ...; as the characters that follow "exp" (n stays below 10).
DirName(n) == IF n = 1 THEN <<>> ELSE <<n>>

\* max(exp_folders, key=getmtime): the names a listing order can make the
\* result (max returns the first of the greatest keys in list order, and
\* os.listdir returns the names in arbitrary order).
Latest(names, ds) ==
  {d \in names : \A e \in names : ds[e].mtime <= ds[d].mtime}

\* Lines 140-142
PickLatest(r) ==
  /\ pc[r] = "pick"
  /\ \E d \in Latest(exp_folders[r], dirs) : latest' = [latest EXCEPT ![r] = d]
  /\ pc' = [pc EXCEPT ![r] = "check"]
  /\ UNCHANGED aux
  /\ UNCHANGED <<env, loads, inputFile, dirs, clock, kind, body, model, det,
                 exp_folders, resp>>

\* Lines 144-145: os.path.exists(latest_image_path)
CheckArtifact(r) ==
  /\ pc[r] = "check"
  /\ IF dirs[latest[r]].artifact = NoFile
       THEN /\ resp' = [resp EXCEPT ![r] =
                          JsonError(500, "Predicted image not found")]
            /\ pc' = [pc EXCEPT ![r] = "done"]
            /\ exp_folders' = [exp_folders EXCEPT ![r] = {}]
            /\ latest' = [latest EXCEPT ![r] = 0]
       ELSE /\ pc' = [pc EXCEPT ![r] = "encode"]
            /\ UNCHANGED <<resp, exp_folders, latest>>
  /\ UNCHANGED aux
  /\ UNCHANGED <<env, loads, inputFile, dirs, clock, kind, body, model, det>>

\* Lines 148-152: the file is read, encoded and returned; the handler's
\* locals end with it.
Encode(r) ==
  /\ pc[r] = "encode"
  /\ resp' = [resp EXCEPT ![r] =
                JsonImage(encodeImageIntoBase64(dirs[latest[r]].artifact))]
  /\ pc' = [pc EXCEPT ![r] = "done"]
  /\ exp_folders' = [exp_folders EXCEPT ![r] = {}]
  /\ latest' = [latest EXCEPT ![r] = 0]
  /\ UNCHANGED aux
  /\ UNCHANGED <<env, loads, inputFile, dirs, clock, kind, body, model, det>>

\* -------------------------------------------------------------- /live --
\* Lines 161-162 and 168-170: clApp = ClientApp() inside the try.
liveStart(r) ==
  /\ Arrives(r)
  /\ kind' = [kind EXCEPT ![r] = "live"]
  /\ LET m == load_model(weightsExists, weightsLoadable, loads) IN
       /\ loads' = m.loads
       /\ model' = [model EXCEPT ![r] = m.model]
       /\ IF m.exc # ""
            THEN /\ resp' = [resp EXCEPT ![r] = JsonError(500, m.exc)]
                 /\ pc' = [pc EXCEPT ![r] = "done"]
            ELSE /\ resp' = resp
                 /\ pc' = [pc EXCEPT ![r] = "spawn"]
  /\ UNCHANGED aux
  /\ UNCHANGED <<env, inputFile, dirs, clock, body, det, exp_folders, latest>>

\* Line 164: return "Camera starting!!"
predictLive(r) ==
  /\ pc[r] = "ack"
  /\ resp' = [resp EXCEPT ![r] = PlainText("Camera starting!!")]
  /\ pc' = [pc EXCEPT ![r] = "done"]
  /\ UNCHANGED aux
  /\ UNCHANGED <<env, loads, inputFile, dirs, clock, kind, body, model, det,
                 exp_folders, latest>>

Next ==
  \/ \E r \in Requests : warmup(r)
  \/ \E r \in Requests : predictRoute(r)
  \/ \E r \in Requests : liveStart(r)
  \/ \E r \in Requests : Decode(r)
  \/ \E r \in Requests : Spawn(r)
  \/ \E r \in Requests : DetMkdir(r)
  \/ \E r \in Requests : DetSave(r)
  \/ \E r \in Requests : DetHang(r)
  \/ \E r \in Requests : run_yolo_detection(r)
  \/ \E r \in Requests : ListDir(r)
  \/ \E r \in Requests : PickLatest(r)
  \/ \E r \in Requests : CheckArtifact(r)
  \/ \E r \in Requests : Encode(r)
  \/ \E r \in Requests : predictLive(r)

Spec == Init /\ [][Next]_vars

\* The steps of request r once it has arrived: those of its handler thread
\* and those of the detection process it started.
Progress(r) ==
  \/ Decode(r)
  \/ Spawn(r)
  \/ DetMkdir(r)
  \/ DetSave(r)
  \/ DetHang(r)
  \/ run_yolo_detection(r)
  \/ ListDir(r)
  \/ PickLatest(r)
  \/ CheckArtifact(r)
  \/ Encode(r)
  \/ predictLive(r)

\* The server with its scheduling: every handler thread and every process
\* that can take a step eventually takes one.
SpecFair == Spec /\ \A r \in Requests : WF_vars(Progress(r))

\* The same server when its clients send one request at a time: a request
\* arrives only when every earlier one has been answered.
Quiet == \A q \in Requests : ~InFlight(q)

SeqNext ==
  \/ \E r \in Requests : Quiet /\ warmup(r)
  \/ \E r \in Requests : Quiet /\ predictRoute(r)
  \/ \E r \in Requests : Quiet /\ liveStart(r)
  \/ \E r \in Requests : Decode(r)
  \/ \E r \in Requests : Spawn(r)
  \/ \E r \in Requests : DetMkdir(r)
  \/ \E r \in Requests : DetSave(r)
  \/ \E r \in Requests : DetHang(r)
  \/ \E r \in Requests : run_yolo_detection(r)
  \/ \E r \in Requests : ListDir(r)
  \/ \E r \in Requests : PickLatest(r)
  \/ \E r \in Requests : CheckArtifact(r)
  \/ \E r \in Requests : Encode(r)
  \/ \E r \in Requests : predictLive(r)

SpecSeq == Init /\ [][SeqNext]_vars

\* ------------------------------------------------- the command line --
MaxDirLen == 3            \* characters of the application directory's path

\* A string is the sequence of its characters.  The characters a directory
\* path is made of here: a letter, a space, and the shell's command
\* separator.  A fixed piece of text without spaces or metacharacters
\* ("python", "--weights", "/yolov5/detect.py") counts as one character.
Chars == {"a", " ", ";"}

\* os.path.dirname(__file__), line 39
BaseDirs == UNION {[1..k -> Chars] : k \in 1..MaxDirLen}

\* The --source argument: line 128 for /predict, line 163 for /live.
Sources(base) == {base \o <<"/data/inputImage.jpg">>, <<"0">>}

\* Lines 68-83: the argument list.
yolo_cmd(base, src) ==
  << <<"python">>, base \o <<"/yolov5/detect.py">>,
     <<"--weights">>, base \o <<"/yolov5/my_model.pt">>,
     <<"--img">>, <<"416">>,
     <<"--conf">>, <<"0.5">>,
     <<"--source">>, src,
     <<"--project">>, base \o <<"/yolov5/runs/detect">>,
     <<"--name">>, <<"exp">> >>

\* Line 86: " ".join(words)
RECURSIVE Join(_)
Join(words) ==
  IF words = <<>> THEN <<>>
  ELSE IF Len(words) = 1 THEN words[1]
  ELSE words[1] \o <<" ">> \o Join(Tail(words))

\* The shell's reading of a command string (os.system runs sh -c): the first
\* command ends at an unquoted ";" ...
RECURSIVE FirstCommand(_)
FirstCommand(str) ==
  IF str = <<>> \/ str[1] = ";" THEN <<>>
  ELSE <<str[1]>> \o FirstCommand(Tail(str))

\* ... and its words are the runs of characters between spaces; cur is the
\* word being read.
RECURSIVE Words(_, _)
Words(str, cur) ==
  IF str = <<>> THEN (IF cur = <<>> THEN <<>> ELSE <<cur>>)
  ELSE IF str[1] = " "
    THEN (IF cur = <<>> THEN <<>> ELSE <<cur>>) \o Words(Tail(str), <<>>)
    ELSE Words(Tail(str), Append(cur, str[1]))

\* The argument list of the process os.system(str) starts first.
sh_argv(str) == Words(FirstCommand(str), <<>>)

\* Lines 68-90: the list is built, joined and handed to the shell.
BuildAndRun ==
  /\ argv = <<>>
  /\ argv' = sh_argv(Join(yolo_cmd(base_dir, source)))
  /\ UNCHANGED <<env, loads, inputFile, dirs, clock, pc, kind, body, model,
                 det, exp_folders, latest, resp, req_path, sent, base_dir,
                 source>>

\* run_yolo_detection's command line on its own: the application lives in
\* any directory, and the source is an image path or the capture device.
InitCmd ==
  /\ InitServer
  /\ base_dir \in BaseDirs
  /\ source \in Sources(base_dir)
  /\ argv = <<>>
  /\ req_path = [abs |-> FALSE, segs |-> <<>>]
  /\ sent = [status |-> 0, abs |-> FALSE, at |-> <<>>]

SpecCmd == InitCmd /\ [][BuildAndRun]_vars

\* ------------------------------------------------- /output_images --
MaxPathLen == 3           \* segments of a requested path

\* The segments a requested path is made of.
Segments == {"..", "exp", "image0.jpg", "my_model.pt"}

\* The sequences over S of length 1..n.
SeqsUpTo(S, n) == UNION {[1..k -> S] : k \in 1..n}

\* The paths a client may request: relative or absolute (leading "/").
Paths == [abs : BOOLEAN, segs : SeqsUpTo(Segments, MaxPathLen)]

\* A place in the file system: abs FALSE, the names from the application
\* directory down (a leading ".." is a step above it); abs TRUE, the names
\* from "/" down.
Place(a, names) == [abs |-> a, at |-> names]

\* os.path.join("yolov5", "runs", "detect"), relative to the application
\* directory
OutputRoot == <<"yolov5", "runs", "detect">>

\* The files on disk: a result artifact in the output root, the weights
\* file next to it, and a file of that name at "/".
Files ==
  { Place(FALSE, OutputRoot \o <<"exp", "image0.jpg">>),
    Place(FALSE, <<"yolov5", "my_model.pt">>),
    Place(TRUE, <<"my_model.pt">>) }

\* posixpath.normpath of the names: "x/.." collapses, leading ".." stay.
RECURSIVE normpath(_)
normpath(names) ==
  IF names = <<>> THEN <<>>
  ELSE LET front == normpath(SubSeq(names, 1, Len(names) - 1))
           last == names[Len(names)]
       IN IF last = ".." /\ front # <<>> /\ front[Len(front)] # ".."
            THEN SubSeq(front, 1, Len(front) - 1)
            ELSE Append(front, last)

\* werkzeug's safe_join(directory, path), which send_from_directory calls:
\* ok FALSE (None) for an absolute path and for one whose normal form is
\* ".." or starts with "../".
safe_join(directory, p) ==
  LET n == normpath(p.segs) IN
    IF p.abs \/ (n # <<>> /\ n[1] = "..")
      THEN [ok |-> FALSE, abs |-> FALSE, at |-> <<>>]
      ELSE [ok |-> TRUE, abs |-> FALSE, at |-> directory \o n]

\* os.path.join(directory, path) as the operating system resolves it: an
\* absolute path replaces the directory.
os_path_join(directory, p) ==
  IF p.abs THEN [ok |-> TRUE, abs |-> TRUE, at |-> normpath(p.segs)]
           ELSE [ok |-> TRUE, abs |-> FALSE, at |-> normpath(directory \o p.segs)]

NotFound == [status |-> 404, abs |-> FALSE, at |-> <<>>]
SendFile(j) == [status |-> 200, abs |-> j.abs, at |-> j.at]

\* The route as it would be with send_file(os.path.join(directory, path)).
send_file_joined(directory, p) ==
  LET j == os_path_join(directory, p) IN
    IF Place(j.abs, j.at) \in Files THEN SendFile(j) ELSE NotFound

\* Line 175, send_from_directory(directory, path): 404 when safe_join
\* refuses the path or no file is there, the file otherwise.
send_from_directory(directory, p) ==
  LET j == safe_join(directory, p) IN
    IF j.ok /\ Place(j.abs, j.at) \in Files THEN SendFile(j) ELSE NotFound

\* Lines 173-175
send_output_image ==
  /\ sent.status = 0
  /\ sent' = send_from_directory(OutputRoot, req_path)
  /\ UNCHANGED <<env, loads, inputFile, dirs, clock, pc, kind, body, model,
                 det, exp_folders, latest, resp, req_path, base_dir, source,
                 argv>>

\* The /output_images route on its own: any path is requested of the
\* started server.
InitFetch ==
  /\ InitServer
  /\ req_path \in Paths
  /\ sent = [status |-> 0, abs |-> FALSE, at |-> <<>>]
  /\ base_dir = <<"a">>
  /\ source = <<>>
  /\ argv = <<>>

SpecFetch == InitFetch /\ [][send_output_image]_vars

\* ------------------------------------------------------------- claims --
\* The weights file is present and loads: no request fails for its model.
Healthy == weightsExists /\ weightsLoadable

\* The detection processes running now.
Running == {r \in Requests : det[r].st \in {"running", "hung"}}

\* The response that carries the detection result of r's own picture.
OwnResult(r) ==
  JsonImage(encodeImageIntoBase64(Annotated(decodeImage(body[r].image))))

\* The run of request r has left its result artifact in its own directory.
OwnArtifact(r) == det[r].dir # 0 /\ dirs[det[r].dir].artifact # NoFile

\* C1: of two /predict requests with different pictures that are in flight
\* together, the one that returns an image returns the detection result of
\* the picture it submitted.
C1_Isolation ==
  \A r, q \in Requests :
    ( /\ Healthy
      /\ r # q
      /\ body[r] = GoodBody(r) /\ body[q] = GoodBody(q)
      /\ InFlight(q)
      /\ resp[r].tag = "image" )
    => resp[r] = OwnResult(r)

\* C2: torch.load is executed at most once in the life of the process, and
\* all requests that hold a model hold the same object.
C2_SingletonLoad ==
  /\ loads <= 1
  /\ \A r, q \in Requests : (model[r] > 0 /\ model[q] > 0) => model[r] = model[q]

\* C3: the directory whose artifact a /predict request has resolved and is
\* about to return is the one its own detection run created; stated for the
\* requests whose run ended with exit code 0 and its artifact in place.
C3_OwnDirectory ==
  \A r \in Requests :
    (Healthy /\ pc[r] = "encode" /\ det[r].code = 0 /\ OwnArtifact(r))
    => dirs[latest[r]].owner = r

\* C4: a request whose detection process ended with a non-zero exit code
\* does not go on (to the resolve stage or to the acknowledgement): it is
\* answered with the error that the invocation raised.
C4_ExitCodePropagation ==
  \A r \in Requests :
    (Healthy /\ det[r].st = "exited" /\ det[r].code # 0)
    => (pc[r] = "done" /\ resp[r].tag = "error")

\* C5: a /predict request whose own detection run left no directory, or no
\* artifact in its directory, is answered with an error and never with an
\* image, whatever directories earlier runs left in the output root; stated
\* for the runs that broke off with a non-zero exit code.
C5_NoArtifactIsError ==
  \A r \in Requests :
    (Healthy /\ kind[r] = "predict" /\ pc[r] = "done"
       /\ det[r].st = "exited" /\ det[r].code # 0 /\ ~OwnArtifact(r))
    => resp[r].tag = "error"

\* A stage of request r has failed: its detection process exited non-zero,
\* or decoding, resolving or encoding ended the request with an error.
StageFailed(r) ==
  \/ det[r].st = "exited" /\ det[r].code # 0
  \/ resp[r].tag \in {"error", "unhandled"}

\* C6: a /predict request one of whose stages has failed never answers with
\* a payload that contains an image.
C6_NoPartialResult ==
  \A r \in Requests :
    (Healthy /\ kind[r] = "predict" /\ StageFailed(r))
    => resp[r].tag # "image"

\* The bodies C7 names: not JSON, image field missing, image field empty.
NonConforming == {b \in BadBodies : b.form \in {"nonjson", "missing", "empty"}}

\* C7: a /predict request with a non-conforming body is answered with a
\* validation error (status 400) in every state of the system, weights file
\* absent or unloadable included.
C7_MalformedInput ==
  \A r \in Requests :
    (kind[r] = "predict" /\ pc[r] = "done" /\ body[r] \in NonConforming)
    => (resp[r].tag = "error" /\ resp[r].status = 400)

\* C8: with the weights file absent, /warmup answers with a structured
\* failure status: neither an unhandled failure nor the success status.
C8_MissingConfiguration ==
  \A r \in Requests :
    (kind[r] = "warmup" /\ pc[r] = "done" /\ ~weightsExists)
    => (resp[r].tag # "unhandled" /\ resp[r] # JsonStatus("Model loaded"))

\* C9: /warmup answers 'Model loaded' only when its ClientApp holds a model
\* object, and a /predict request whose model failed to load is answered
\* with an error before any detection process is started.
C9_LoadedMeansLoaded ==
  \A r \in Requests :
    /\ resp[r] = JsonStatus("Model loaded") => model[r] > 0
    /\ (kind[r] = "predict" /\ model[r] = -1)
         => (pc[r] = "done" /\ resp[r].tag = "error" /\ det[r].st = "none")

\* C10: the detection processes running at the same time are fewer than the
\* requests the server handles at the same time: beyond a fixed number of
\* running processes a request waits instead of starting one more.
C10_BoundedProcesses == Healthy => Cardinality(Running) <= NumRequests - 1

\* C11: every /predict request that has arrived is eventually answered
\* (Done or Failed), also when its detection process never terminates by
\* itself.
C11_EventuallyAnswered ==
  \A r \in Requests :
    (Healthy /\ kind[r] = "predict" /\ InFlight(r)) ~> (pc[r] = "done")

\* The stage of the request state machine that request r is in.
Stage(r) ==
  CASE pc[r] = "idle" -> "Idle"
    [] pc[r] = "decode" -> "Decoding"
    [] pc[r] \in {"spawn", "wait"} -> "Detecting"
    [] pc[r] \in {"listdir", "pick", "check"} -> "Resolving"
    [] pc[r] = "encode" -> "Encoding"
    [] pc[r] = "ack" -> "Acknowledging"
    [] OTHER -> IF resp[r].tag = "image" THEN "Done" ELSE "Failed"

\* The stage that follows stage s when s succeeds.
StageAfter(s) ==
  CASE s = "Idle" -> "Decoding"
    [] s = "Decoding" -> "Detecting"
    [] s = "Detecting" -> "Resolving"
    [] s = "Resolving" -> "Encoding"
    [] s = "Encoding" -> "Done"
    [] OTHER -> s

\* What holds in every state of a /predict request: its process exists only
\* from the Detecting stage on, with the input image written, and has
\* terminated when the request scans the output root or encodes.
StageInv(r) ==
  /\ det[r].st # "none"
       => (Stage(r) \notin {"Idle", "Decoding"} /\ inputFile # NoFile)
  /\ Stage(r) \in {"Resolving", "Encoding"} => det[r].st = "exited"
  /\ exp_folders[r] # {} => det[r].st = "exited"

\* What holds of every step of a /predict request: the stage stays, or
\* becomes the next one in order, or becomes Failed, no stage is left once
\* the request is Done or Failed, and the image response is produced in the
\* Encoding stage.
StageStep(r) ==
  /\ Stage(r)' \in {Stage(r), StageAfter(Stage(r)), "Failed"}
  /\ Stage(r) \in {"Done", "Failed"} => Stage(r)' = Stage(r)
  /\ (resp[r].tag # "image" /\ resp'[r].tag = "image") => Stage(r) = "Encoding"

\* C12: a /predict request goes through Idle, Decoding, Detecting,
\* Resolving, Encoding, Done in this order, each at most once; its process
\* is started only after the input image is written, the output root is
\* scanned only after its process has terminated, and the image response is
\* produced only after encoding.
C12_StageOrder ==
  /\ [](\A r \in Requests : kind[r] = "predict" => StageInv(r))
  /\ [][\A r \in Requests : kind'[r] = "predict" => StageStep(r)]_vars

\* A /predict request has gone through every stage and returned its image.
C12_Witness ==
  \E r \in Requests :
    kind[r] = "predict" /\ Stage(r) = "Done" /\ det[r].st = "exited"

\* The depth below the output root after each of the first k segments: a
\* ".." goes one up, any other name one down.
RECURSIVE Depth(_, _)
Depth(segs, k) ==
  IF k = 0 THEN 0
  ELSE Depth(segs, k - 1) + (IF segs[k] = ".." THEN -1 ELSE 1)

\* The path leaves the output root: it is absolute, or one of its segments
\* steps above the root.
Escapes(p) == p.abs \/ \E k \in 1..Len(p.segs) : Depth(p.segs, k) < 0

\* The place lies inside the output root.
Inside(pl) ==
  /\ ~pl.abs
  /\ Len(pl.at) > Len(OutputRoot)
  /\ SubSeq(pl.at, 1, Len(OutputRoot)) = OutputRoot

\* C13: /output_images/<path> serves only files inside the output root, and
\* answers every path that escapes the root with 404.
C13_TraversalGuard ==
  sent.status # 0 =>
    /\ sent.status = 200 => Inside(sent)
    /\ Escapes(req_path) => sent = NotFound

\* The weights file was requested as ../../my_model.pt and refused.
C13_Witness ==
  /\ req_path = [abs |-> FALSE, segs |-> <<"..", "..", "my_model.pt">>]
  /\ sent = NotFound

\* The request has written its input image and its detection run has not
\* returned yet.
UsesInput(r) ==
  kind[r] = "predict" /\ pc[r] \in {"spawn", "wait"} /\ det[r].st # "exited"

\* C14: two distinct predict requests that are using their input image at
\* the same time have different input image paths and different run names,
\* and the file at a request's input path holds that request's picture.
C14_Namespaced ==
  Healthy =>
    \A r1, r2 \in Requests :
      (r1 # r2 /\ UsesInput(r1) /\ UsesInput(r2)) =>
        /\ image_path(r1) # image_path(r2)
        /\ run_name(r1) # run_name(r2)
        /\ inputFile = decodeImage(body[r1].image)
        /\ inputFile = decodeImage(body[r2].image)

\* Lexicographic order of the names, character by character.
RECURSIVE LexLess(_, _)
LexLess(a, b) ==
  IF b = <<>> THEN FALSE
  ELSE IF a = <<>> THEN TRUE
  ELSE IF a[1] # b[1] THEN a[1] < b[1]
  ELSE LexLess(Tail(a), Tail(b))

\* Of the directories ds, the one with the lexicographically greatest name.
LexGreatest(ds) ==
  CHOOSE d \in ds : \A e \in ds \ {d} : LexLess(DirName(e), DirName(d))

\* C15: the resolver's choice among the directories sharing the greatest
\* modification time is the one with the lexicographically greatest name,
\* whatever the order of the listing.
C15_TieBreak ==
  [][\A r \in Requests :
       (Healthy /\ pc[r] = "pick" /\ pc'[r] = "check") =>
         latest'[r] = LexGreatest(Latest(exp_folders[r], dirs))]_vars

\* C16: run_yolo_detection launches the detection process exactly once,
\* whatever its exit status: no request ever has a second process, every
\* predict request past the launch has had exactly one, and so has every
\* predict request answered with a picture.
C16_NoRetry ==
  \A r \in Requests :
    /\ det[r].runs <= 1
    /\ det[r].runs = 1 <=> det[r].st # "none"
    /\ kind[r] = "predict" =>
         /\ pc[r] \in {"wait", "listdir", "pick", "check", "encode"} =>
              det[r].runs = 1
         /\ (pc[r] = "done" /\ resp[r].tag = "image") => det[r].runs = 1

\* A predict request was answered after its one process failed.
C16_Witness ==
  \E r \in Requests :
    /\ kind[r] = "predict" /\ pc[r] = "done"
    /\ det[r].st = "exited" /\ det[r].code # 0 /\ det[r].runs = 1

\* C17: the argument list the detection process receives equals the list
\* run_yolo_detection built, element for element, whatever characters the
\* paths contain.
C17_DiscreteArguments ==
  argv # <<>> => argv = yolo_cmd(base_dir, source)

\* Validation rejected the request: 400 for a body that is not JSON or has
\* no image.
Rejected(r) == kind[r] = "predict" /\ resp[r].status = 400

\* C18: the step that rejects a predict request leaves the input image
\* file, the experiment directories and the detection processes as they
\* were, and a rejected request has no process and no directory afterwards.
C18_RejectionFrame ==
  /\ [][\A r \in Requests :
          (pc[r] = "idle" /\ Rejected(r)') =>
            /\ inputFile' = inputFile
            /\ dirs' = dirs
            /\ det' = det]_vars
  /\ [](\A r \in Requests :
          Rejected(r) =>
            /\ det[r] = NoDet
            /\ \A d \in DOMAIN dirs : dirs[d].owner # r)

\* A request was rejected while another request's input image and
\* experiment directory were on disk.
C18_Witness ==
  \E r \in Requests :
    /\ Rejected(r) /\ pc[r] = "done"
    /\ inputFile # NoFile
    /\ \E d \in DOMAIN dirs : dirs[d].owner < r

Ack == PlainText("Camera starting!!")

\* C19: a live request is acknowledged only after the process it launched
\* has terminated, and every live request whose process has terminated and
\* which has been answered got that acknowledgement, whatever the exit code.
C19_LiveAck ==
  \A r \in Requests :
    kind[r] = "live" =>
      /\ resp[r] = Ack => det[r].st = "exited"
      /\ pc[r] \in {"ack", "done"} /\ det[r].runs = 1 => det[r].st = "exited"
      /\ (pc[r] = "done" /\ det[r].st = "exited") => resp[r] = Ack

\* A live request whose process exited non-zero was acknowledged.
C19_Witness ==
  \E r \in Requests :
    /\ kind[r] = "live" /\ pc[r] = "done"
    /\ det[r].st = "exited" /\ det[r].code # 0
    /\ resp[r] = Ack
=============================================================================
